---- MODULE Spec2Model ----
(***************************************************************************)
(* Model of reliable.c: the 16-bit sequence arithmetic and the circular    *)
(* sequence buffer (the reliable_sequence_buffer functions).               *)
(*                                                                         *)
(* The buffer is one object: its fields are the variables num_entries,     *)
(* entry_stride, sequence and entry_sequence.  The payload array           *)
(* entry_data is never read or written by the buffer's own code; only      *)
(* addresses into it are returned, and they are modelled as byte offsets   *)
(* from entry_data (index * entry_stride), NULL as -1.                     *)
(*                                                                         *)
(* The variables op, arg, ret and pre_* record the last call, its          *)
(* argument, its return value and the buffer's fields before the call.     *)
(***************************************************************************)
EXTENDS Integers, FiniteSets

VARIABLES
    num_entries,        \* sequence_buffer->num_entries
    entry_stride,       \* sequence_buffer->entry_stride
    sequence,           \* sequence_buffer->sequence (uint16_t)
    entry_sequence,     \* sequence_buffer->entry_sequence[0..num_entries-1] (uint32_t)
    was_reset,          \* reliable_sequence_buffer_reset has been called since create
    op,                 \* the last call made
    arg,                \* its sequence / index argument
    ret,                \* its return value (int, or offset of the returned pointer)
    pre_sequence,       \* sequence before the last call
    pre_entry_sequence, \* entry_sequence before the last call
    cmp_s1,             \* arguments and results of the sequence comparisons
    cmp_s2,
    cmp_gt,
    cmp_gt_rev,
    cmp_lt,
    cmp_s3,             \* a third argument, and the comparisons with it
    cmp_gt_23,
    cmp_gt_13

bufVars == <<num_entries, entry_stride, sequence, entry_sequence, was_reset>>
callVars == <<op, arg, ret, pre_sequence, pre_entry_sequence>>
cmpVars == <<cmp_s1, cmp_s2, cmp_gt, cmp_gt_rev, cmp_lt, cmp_s3, cmp_gt_23, cmp_gt_13>>
vars == <<num_entries, entry_stride, sequence, entry_sequence, was_reset,
          op, arg, ret, pre_sequence, pre_entry_sequence,
          cmp_s1, cmp_s2, cmp_gt, cmp_gt_rev, cmp_lt, cmp_s3, cmp_gt_23, cmp_gt_13>>

(***************************************************************************)
(* Program constants.                                                      *)
(***************************************************************************)
\* number of values of a uint16_t: conversions to uint16_t reduce modulo it
UINT16_COUNT == 65536
\* the half window of reliable_sequence_greater_than
HALF_RANGE == 32768
\* what reliable_sequence_buffer_remove_entries adds to a finish below start
WRAP_ADD == 65535
\* A uint32_t tag is written as the int32_t with the same 32 bits (the model
\* checker's integers are 32 bits wide): 0 .. 65535 are themselves, and the
\* tags are only ever compared for equality.
\* 0xFFFFFFFF, the tag of an empty slot
EMPTY == -1
\* 0xCDCDCDCD, a heap fill pattern: one value never written memory may hold
FILL == -842150451
\* the null pointer, as an offset no slot has
NULL == -1

(***************************************************************************)
(* Bounds of the model.                                                    *)
(***************************************************************************)
\* capacities 1..MaxEntries are created
MaxEntries == 4
\* strides 1..MaxStride are created
MaxStride == 1
\* sequence arguments lie within Near of 0 and of 65535, or next to 32768
Near == 3

U16(x) == x % UINT16_COUNT

SeqInputs ==
    (0 .. Near) \cup ((HALF_RANGE - 1) .. (HALF_RANGE + 1))
        \cup ((UINT16_COUNT - 1 - Near) .. (UINT16_COUNT - 1))

\* what malloc'ed, never written memory may hold in one uint32_t
FreshTags == {0, EMPTY, FILL}

Slots == 0 .. (num_entries - 1)

(***************************************************************************)
(* Sequence arithmetic.                                                    *)
(***************************************************************************)
\* variant for C11: the wrapped case s1 < s2 left out
greater_than_no_wrap(s1, s2) ==
    s1 > s2 /\ s1 - s2 <= HALF_RANGE

\* variant for C12: the tie at 32768 given to the smaller integer
greater_than_tie_to_smaller(s1, s2) ==
    \/ (s1 > s2 /\ s1 - s2 < HALF_RANGE)
    \/ (s1 < s2 /\ s2 - s1 >= HALF_RANGE)

\* variant for C10: the half window taken as s1 - s2 < 32768
greater_than_strict_half(s1, s2) ==
    \/ (s1 > s2 /\ s1 - s2 < HALF_RANGE)
    \/ (s1 < s2 /\ s2 - s1 > HALF_RANGE)

reliable_sequence_greater_than(s1, s2) ==
    \/ (s1 > s2 /\ s1 - s2 <= HALF_RANGE)
    \/ (s1 < s2 /\ s2 - s1 > HALF_RANGE)

reliable_sequence_less_than(s1, s2) ==
    reliable_sequence_greater_than(s2, s1)

(***************************************************************************)
(* Pure parts of the buffer operations, as functions of the fields.        *)
(***************************************************************************)
\* entry_sequence after reliable_sequence_buffer_remove_entries; start and
\* finish are ints
remove_entries(es, n, start_sequence, finish_sequence) ==
    LET finish == IF finish_sequence < start_sequence
                  THEN finish_sequence + WRAP_ADD
                  ELSE finish_sequence
    IN  IF finish - start_sequence < n
        THEN [i \in 0 .. (n - 1) |->
                 IF \E q \in start_sequence .. finish : q % n = i
                 THEN EMPTY ELSE es[i]]
        ELSE [i \in 0 .. (n - 1) |-> EMPTY]

\* finish_sequence as remove_entries linearizes it
linear_finish(start_sequence, finish_sequence) ==
    IF finish_sequence < start_sequence
    THEN finish_sequence + WRAP_ADD
    ELSE finish_sequence

\* variant for C17: the loop taken when finish - start <= num_entries
remove_entries_writes_inclusive(n, start_sequence, finish_sequence) ==
    LET finish == linear_finish(start_sequence, finish_sequence)
    IN  IF finish - start_sequence <= n
        THEN finish - start_sequence + 1
        ELSE n

\* the number of tags remove_entries writes: one per iteration of the loop
\* it takes
remove_entries_writes(n, start_sequence, finish_sequence) ==
    LET finish == linear_finish(start_sequence, finish_sequence)
    IN  IF finish - start_sequence < n
        THEN finish - start_sequence + 1
        ELSE n

\* the first branch of insert is taken: the window advances
insert_advances(seq, s) ==
    reliable_sequence_greater_than(U16(s + 1), seq)

\* variant for C3: sequence - num_entries compared as an int, not converted
\* to uint16_t
insert_rejects_unconverted(seq, n, s) ==
    /\ ~insert_advances(seq, s)
    /\ reliable_sequence_greater_than(seq - n, s)

\* the second branch of insert is taken: NULL is returned
insert_rejects(seq, n, s) ==
    /\ ~insert_advances(seq, s)
    /\ reliable_sequence_less_than(s, U16(seq - n))

\* variant for C2: the index taken from sequence + 1
insert_index_next(n, s) == (s + 1) % n

\* the slot an accepted insert tags
insert_index(n, s) == s % n

\* variant for C15: newest_sequence set to sequence, not sequence + 1
insert_sequence_no_increment(seq, n, s) ==
    IF insert_advances(seq, s) THEN s ELSE seq

\* sequence after insert
insert_sequence(seq, n, s) ==
    IF insert_advances(seq, s) THEN U16(s + 1) ELSE seq

\* variant for C6: the slot tagged with the buffer's sequence field instead
\* of the sequence argument
insert_entries_tag_newest(es, seq, n, s) ==
    IF insert_rejects(seq, n, s)
    THEN es
    ELSE LET cleared == IF insert_advances(seq, s)
                        THEN remove_entries(es, n, seq, s)
                        ELSE es
         IN  [cleared EXCEPT ![insert_index(n, s)] = insert_sequence(seq, n, s)]

\* variant for C19: remove_entries called outside the if, on every insert
insert_entries_always_evicts(es, seq, n, s) ==
    IF insert_rejects(seq, n, s)
    THEN es
    ELSE [remove_entries(es, n, seq, s) EXCEPT ![insert_index(n, s)] = s]

\* entry_sequence after insert
insert_entries(es, seq, n, s) ==
    IF insert_rejects(seq, n, s)
    THEN es
    ELSE LET cleared == IF insert_advances(seq, s)
                        THEN remove_entries(es, n, seq, s)
                        ELSE es
         IN  [cleared EXCEPT ![insert_index(n, s)] = s]

\* the number of tags the eviction step of insert writes
insert_eviction_writes(seq, n, s) ==
    IF insert_advances(seq, s) THEN remove_entries_writes(n, seq, s) ELSE 0

\* the pointer insert returns
insert_result(seq, n, stride, s) ==
    IF insert_rejects(seq, n, s) THEN NULL ELSE insert_index(n, s) * stride

\* variant for C7: the memset sized sizeof(uint32_t), without * num_entries
reset_entries_first_only(es, n) ==
    [i \in 0 .. (n - 1) |-> IF i = 0 THEN EMPTY ELSE es[i]]

\* entry_sequence after reset: the memset writes 0xFF over all num_entries tags
reset_entries(es, n) == [i \in 0 .. (n - 1) |-> EMPTY]

\* variant for C8: the slot emptied only when it holds the sequence removed
remove_entry_if_tagged(es, n, s) ==
    IF es[s % n] = s THEN [es EXCEPT ![s % n] = EMPTY] ELSE es

\* entry_sequence after remove
remove_entry(es, n, s) == [es EXCEPT ![s % n] = EMPTY]

buffer_available(es, n, s) == IF es[s % n] = EMPTY THEN 1 ELSE 0

\* variant for C9: exists answered from the slot being occupied
buffer_exists_occupied(es, n, s) == IF es[s % n] # EMPTY THEN 1 ELSE 0

buffer_exists(es, n, s) == IF es[s % n] = s THEN 1 ELSE 0

buffer_find(es, n, stride, s) ==
    IF es[s % n] = s THEN (s % n) * stride ELSE NULL

buffer_at_index(es, stride, i) ==
    IF es[i] # EMPTY THEN i * stride ELSE NULL

(***************************************************************************)
(* The state after reliable_sequence_buffer_create: sequence is 0, the     *)
(* two mallocs are not written, so each tag holds whatever the memory      *)
(* held.                                                                   *)
(***************************************************************************)
CmpIdle ==
    /\ cmp_s1 = 0 /\ cmp_s2 = 0 /\ cmp_s3 = 0
    /\ cmp_gt = NULL /\ cmp_gt_rev = NULL /\ cmp_lt = NULL
    /\ cmp_gt_23 = NULL /\ cmp_gt_13 = NULL

Init ==
    /\ num_entries \in 1 .. MaxEntries
    /\ entry_stride \in 1 .. MaxStride
    /\ sequence = 0
    /\ entry_sequence \in [0 .. (num_entries - 1) -> FreshTags]
    /\ was_reset = FALSE
    /\ op = "create"
    /\ arg = num_entries
    /\ ret = 0
    /\ pre_sequence = sequence
    /\ pre_entry_sequence = entry_sequence
    /\ CmpIdle

Called(name, a, r) ==
    /\ op' = name
    /\ arg' = a
    /\ ret' = r
    /\ pre_sequence' = sequence
    /\ pre_entry_sequence' = entry_sequence
    /\ UNCHANGED <<num_entries, entry_stride>>
    /\ UNCHANGED cmpVars

Reset ==
    /\ sequence' = 0
    /\ entry_sequence' = reset_entries(entry_sequence, num_entries)
    /\ was_reset' = TRUE
    /\ Called("reset", 0, 0)

Insert(s) ==
    /\ sequence' = insert_sequence(sequence, num_entries, s)
    /\ entry_sequence' = insert_entries(entry_sequence, sequence, num_entries, s)
    /\ UNCHANGED was_reset
    /\ Called("insert", s, insert_result(sequence, num_entries, entry_stride, s))

Remove(s) ==
    /\ entry_sequence' = remove_entry(entry_sequence, num_entries, s)
    /\ UNCHANGED <<sequence, was_reset>>
    /\ Called("remove", s, 0)

Available(s) ==
    /\ UNCHANGED <<sequence, entry_sequence, was_reset>>
    /\ Called("available", s, buffer_available(entry_sequence, num_entries, s))

Exists(s) ==
    /\ UNCHANGED <<sequence, entry_sequence, was_reset>>
    /\ Called("exists", s, buffer_exists(entry_sequence, num_entries, s))

Find(s) ==
    /\ UNCHANGED <<sequence, entry_sequence, was_reset>>
    /\ Called("find", s, buffer_find(entry_sequence, num_entries, entry_stride, s))

AtIndex(i) ==
    /\ UNCHANGED <<sequence, entry_sequence, was_reset>>
    /\ Called("at_index", i, buffer_at_index(entry_sequence, entry_stride, i))

Next ==
    \/ Reset
    \/ \E s \in SeqInputs : Insert(s)
    \/ \E s \in SeqInputs : Remove(s)
    \/ \E s \in SeqInputs : Available(s)
    \/ \E s \in SeqInputs : Exists(s)
    \/ \E s \in SeqInputs : Find(s)
    \/ \E i \in Slots : AtIndex(i)

Spec == Init /\ [][Next]_vars

(***************************************************************************)
(* The sequence comparisons on their own: the arguments are drawn from     *)
(* the 16-bit values within Near of 0, of 32768 and of 65535, and each     *)
(* step calls one comparison and records its int result.  The buffer is    *)
(* a created buffer of one slot that is left alone.                        *)
(***************************************************************************)
CmpInputs ==
    (0 .. Near) \cup ((HALF_RANGE - Near) .. (HALF_RANGE + Near))
        \cup ((UINT16_COUNT - 1 - Near) .. (UINT16_COUNT - 1))

CmpInit ==
    /\ num_entries = 1
    /\ entry_stride = 1
    /\ sequence = 0
    /\ entry_sequence \in [0 .. 0 -> FreshTags]
    /\ was_reset = FALSE
    /\ op = "create"
    /\ arg = num_entries
    /\ ret = 0
    /\ pre_sequence = sequence
    /\ pre_entry_sequence = entry_sequence
    /\ cmp_s1 \in CmpInputs
    /\ cmp_s2 \in CmpInputs
    /\ cmp_s3 = 0
    /\ cmp_gt = NULL /\ cmp_gt_rev = NULL /\ cmp_lt = NULL
    /\ cmp_gt_23 = NULL /\ cmp_gt_13 = NULL

\* reliable_sequence_greater_than( cmp_s1, cmp_s2 )
GreaterThan ==
    /\ cmp_gt' = IF reliable_sequence_greater_than(cmp_s1, cmp_s2) THEN 1 ELSE 0
    /\ UNCHANGED <<cmp_s1, cmp_s2, cmp_s3, cmp_gt_rev, cmp_lt, cmp_gt_23, cmp_gt_13>>
    /\ UNCHANGED <<bufVars, callVars>>

\* reliable_sequence_greater_than( cmp_s2, cmp_s1 )
GreaterThanSwapped ==
    /\ cmp_gt_rev' = IF reliable_sequence_greater_than(cmp_s2, cmp_s1) THEN 1 ELSE 0
    /\ UNCHANGED <<cmp_s1, cmp_s2, cmp_s3, cmp_gt, cmp_lt, cmp_gt_23, cmp_gt_13>>
    /\ UNCHANGED <<bufVars, callVars>>

\* reliable_sequence_less_than( cmp_s1, cmp_s2 )
LessThan ==
    /\ cmp_lt' = IF reliable_sequence_less_than(cmp_s1, cmp_s2) THEN 1 ELSE 0
    /\ UNCHANGED <<cmp_s1, cmp_s2, cmp_s3, cmp_gt, cmp_gt_rev, cmp_gt_23, cmp_gt_13>>
    /\ UNCHANGED <<bufVars, callVars>>

CmpNext ==
    \/ GreaterThan
    \/ GreaterThanSwapped
    \/ LessThan

CmpSpec == CmpInit /\ [][CmpNext]_vars

(***************************************************************************)
(* The comparisons of three sequences: greater_than is called on the pairs *)
(* (s1,s2), (s2,s1), (s2,s3) and (s1,s3).                                  *)
(***************************************************************************)
OrderInit ==
    /\ num_entries = 1
    /\ entry_stride = 1
    /\ sequence = 0
    /\ entry_sequence = [i \in 0 .. 0 |-> EMPTY]
    /\ was_reset = FALSE
    /\ op = "create"
    /\ arg = num_entries
    /\ ret = 0
    /\ pre_sequence = sequence
    /\ pre_entry_sequence = entry_sequence
    /\ cmp_s1 \in CmpInputs
    /\ cmp_s2 \in CmpInputs
    /\ cmp_s3 \in CmpInputs
    /\ cmp_gt = NULL /\ cmp_gt_rev = NULL /\ cmp_lt = NULL
    /\ cmp_gt_23 = NULL /\ cmp_gt_13 = NULL

\* reliable_sequence_greater_than( cmp_s2, cmp_s3 )
GreaterThan23 ==
    /\ cmp_gt_23' = IF reliable_sequence_greater_than(cmp_s2, cmp_s3) THEN 1 ELSE 0
    /\ UNCHANGED <<cmp_s1, cmp_s2, cmp_s3, cmp_gt, cmp_gt_rev, cmp_lt, cmp_gt_13>>
    /\ UNCHANGED <<bufVars, callVars>>

\* reliable_sequence_greater_than( cmp_s1, cmp_s3 )
GreaterThan13 ==
    /\ cmp_gt_13' = IF reliable_sequence_greater_than(cmp_s1, cmp_s3) THEN 1 ELSE 0
    /\ UNCHANGED <<cmp_s1, cmp_s2, cmp_s3, cmp_gt, cmp_gt_rev, cmp_lt, cmp_gt_23>>
    /\ UNCHANGED <<bufVars, callVars>>

OrderNext ==
    \/ GreaterThan
    \/ GreaterThanSwapped
    \/ GreaterThan23
    \/ GreaterThan13

OrderSpec == OrderInit /\ [][OrderNext]_vars

(***************************************************************************)
(* Vocabulary of the properties.                                           *)
(***************************************************************************)
\* The 16-bit sequences s with exists(s) for the tags es.  exists(s) compares
\* the tag of slot s % n with s, so every such s is one of the n tags: the
\* set ranges over the tags instead of over all 65536 sequences.
Resident(es, n) ==
    {t \in {es[i] : i \in 0 .. (n - 1)} :
        t \in 0 .. (UINT16_COUNT - 1) /\ buffer_exists(es, n, t) = 1}

\* the queries, on the current fields
available_now(s) == buffer_available(entry_sequence, num_entries, s) = 1
exists_now(s) == buffer_exists(entry_sequence, num_entries, s) = 1
exists_before(s) == buffer_exists(pre_entry_sequence, num_entries, s) = 1
find_now(s) == buffer_find(entry_sequence, num_entries, entry_stride, s)
at_index_now(i) == buffer_at_index(entry_sequence, entry_stride, i)

\* the last call was an insert that returned a slot
InsertAccepted == op = "insert" /\ ret # NULL

(***************************************************************************)
(* C1.  Immediately after create, with no reset in between, every slot is  *)
(* empty: is_available(s) is true and exists(s) and find(s) report nothing *)
(* for every sequence s, and at_index(i) returns nothing for every slot i. *)
(* (The code: create writes no tag, so this fails in the first state.)     *)
(***************************************************************************)
C1_CreateLeavesAllEmpty ==
    (op = "create") =>
        /\ \A i \in Slots : at_index_now(i) = NULL
        /\ Resident(entry_sequence, num_entries) = {}
        /\ \A s \in SeqInputs :
               available_now(s) /\ ~exists_now(s) /\ find_now(s) = NULL

(***************************************************************************)
(* C2.  In a buffer that has been reset, whenever insert(s) is not         *)
(* rejected, exists(s) is true right after it and find(s) is the pointer   *)
(* insert(s) returned, the payload of slot s % capacity.                   *)
(***************************************************************************)
C2_InsertThenFind ==
    (was_reset /\ InsertAccepted) =>
        /\ exists_now(arg)
        /\ find_now(arg) = ret
        /\ ret = (arg % num_entries) * entry_stride

\* an accepted insert, after a remove, into a slot another sequence held
C2_Witness ==
    /\ was_reset /\ InsertAccepted
    /\ pre_entry_sequence[arg % num_entries] \notin {EMPTY, arg}
    /\ \E i \in Slots : pre_entry_sequence[i] = EMPTY
    /\ pre_sequence > Near

(***************************************************************************)
(* C3.  insert(s) returns nothing exactly when s+1 is not more recent than *)
(* newest_sequence and s is older than newest_sequence - capacity (mod     *)
(* 65536); a rejected insert leaves newest_sequence and every tag as they  *)
(* were, so exists(t) is unchanged for every t.                            *)
(***************************************************************************)
C3_RejectedExactlyWhenTooOld ==
    (op = "insert") =>
        /\ (ret = NULL) <=>
              /\ ~reliable_sequence_greater_than(U16(arg + 1), pre_sequence)
              /\ reliable_sequence_less_than(arg, U16(pre_sequence - num_entries))
        /\ (ret = NULL) =>
              /\ sequence = pre_sequence
              /\ entry_sequence = pre_entry_sequence
              /\ Resident(entry_sequence, num_entries)
                     = Resident(pre_entry_sequence, num_entries)

\* a rejected insert into a reset buffer that holds an entry, where
\* newest_sequence - capacity wraps below 0
C3_Witness ==
    /\ was_reset /\ op = "insert" /\ ret = NULL
    /\ Resident(entry_sequence, num_entries) # {}
    /\ pre_sequence < num_entries

(***************************************************************************)
(* C4.  For every capacity and every state of a reset buffer: after an     *)
(* accepted insert(s), exists(s - capacity - k) is false for every k >= 0  *)
(* with capacity + k < 32768 (mod 65536): no sequence at or behind         *)
(* s - capacity is resident.  A resident t is s - capacity - k for such a  *)
(* k exactly when the distance (s - t) mod 65536 is in capacity .. 32767.  *)
(***************************************************************************)
BehindWindow(s, t) ==
    LET d == U16(s - t)
    IN  d >= num_entries /\ d < HALF_RANGE

C4_NoneBehindWindow ==
    (was_reset /\ InsertAccepted) =>
        \A t \in Resident(entry_sequence, num_entries) : ~BehindWindow(arg, t)

(***************************************************************************)
(* C5.  An accepted insert(s) evicts no other entry of the resulting       *)
(* trailing window: for every t # s among newest_sequence - capacity ..    *)
(* newest_sequence - 1 (mod 65536, newest_sequence after the insert),      *)
(* exists(t) after the insert equals exists(t) before it.                  *)
(***************************************************************************)
TrailingWindow == {U16(sequence - j) : j \in 1 .. num_entries}

C5_WindowEntriesKept ==
    (was_reset /\ InsertAccepted) =>
        \A t \in TrailingWindow \ {arg} : exists_now(t) = exists_before(t)

(***************************************************************************)
(* C6.  In every state reached from reset, each slot i is empty or holds a *)
(* tag t in 0 .. 65535 with t % capacity = i; so at most capacity          *)
(* sequences are resident, and no two distinct residents are congruent     *)
(* modulo capacity.                                                        *)
(***************************************************************************)
C6_TagMatchesSlot ==
    was_reset =>
        /\ \A i \in Slots :
               \/ entry_sequence[i] = EMPTY
               \/ /\ entry_sequence[i] \in 0 .. (UINT16_COUNT - 1)
                  /\ entry_sequence[i] % num_entries = i
        /\ Cardinality(Resident(entry_sequence, num_entries)) <= num_entries
        /\ \A t, u \in Resident(entry_sequence, num_entries) :
               (t % num_entries = u % num_entries) => t = u

\* every slot of a buffer of several slots is occupied, on both sides of
\* the 65535 to 0 wrap
C6_Witness ==
    /\ was_reset
    /\ num_entries > 1
    /\ \A i \in Slots : entry_sequence[i] # EMPTY
    /\ \E i, j \in Slots : entry_sequence[i] <= Near /\ entry_sequence[j] > HALF_RANGE + 1

(***************************************************************************)
(* C7.  reset from any state gives newest_sequence = 0 and every slot      *)
(* empty: exists(s) is false and is_available(s) true for every s.  The    *)
(* state after reset is this one state whatever the state before.          *)
(***************************************************************************)
C7_ResetClearsAll ==
    (op = "reset") =>
        /\ sequence = 0
        /\ \A i \in Slots : entry_sequence[i] = EMPTY /\ at_index_now(i) = NULL
        /\ Resident(entry_sequence, num_entries) = {}
        /\ \A s \in SeqInputs : available_now(s) /\ ~exists_now(s)

\* a reset of a buffer whose newest_sequence is not 0 and whose slots are
\* all occupied
C7_Witness ==
    /\ op = "reset"
    /\ pre_sequence # 0
    /\ num_entries > 1
    /\ \A i \in Slots : pre_entry_sequence[i] \in 0 .. (UINT16_COUNT - 1)

(***************************************************************************)
(* C8.  remove(s) empties the slot s % capacity whatever sequence holds    *)
(* it, so an occupant t # s of that slot no longer exists either; after    *)
(* remove(s), exists(s) is false and is_available(s) is true; a second     *)
(* remove(s) changes nothing.                                              *)
(***************************************************************************)
C8_RemoveEmptiesSlot ==
    (op = "remove") =>
        /\ entry_sequence[arg % num_entries] = EMPTY
        /\ ~exists_now(arg)
        /\ available_now(arg)
        /\ \A t \in Resident(pre_entry_sequence, num_entries) :
               (t % num_entries = arg % num_entries) => ~exists_now(t)
        /\ remove_entry(entry_sequence, num_entries, arg) = entry_sequence

\* remove(s) of a slot held by another, congruent sequence
C8_Witness ==
    /\ op = "remove"
    /\ was_reset
    /\ \E t \in Resident(pre_entry_sequence, num_entries) :
           t # arg /\ t % num_entries = arg % num_entries

(***************************************************************************)
(* C9.  The queries agree with the tags in every state: exists(s) iff the  *)
(* tag of slot s % capacity is s; find(s) is that slot's payload iff       *)
(* exists(s), else nothing; is_available(s) iff that tag is the empty      *)
(* sentinel; at_index(i) is the payload of slot i iff slot i is not empty. *)
(* So exists(s) implies not is_available(s), and a slot held by another    *)
(* congruent sequence gives exists(s) false and is_available(s) false.     *)
(***************************************************************************)
SlotTag(s) == entry_sequence[s % num_entries]

C9_QueriesAgreeWithTags ==
    /\ (op = "exists") =>
           /\ ret \in {0, 1}
           /\ (ret = 1) <=> (SlotTag(arg) = arg)
    /\ (op = "find") =>
           /\ (ret # NULL) <=> exists_now(arg)
           /\ (ret # NULL) => ret = (arg % num_entries) * entry_stride
    /\ (op = "available") =>
           /\ ret \in {0, 1}
           /\ (ret = 1) <=> (SlotTag(arg) = EMPTY)
    /\ (op = "at_index") =>
           /\ (ret # NULL) <=> (entry_sequence[arg] # EMPTY)
           /\ (ret # NULL) => ret = arg * entry_stride
    /\ \A s \in SeqInputs :
           /\ exists_now(s) => ~available_now(s)
           /\ (SlotTag(s) \notin {EMPTY, s}) => (~exists_now(s) /\ ~available_now(s))

\* exists(s) asked of a slot that a different, congruent sequence holds
C9_Witness ==
    /\ op = "exists"
    /\ was_reset
    /\ ret = 0
    /\ SlotTag(arg) \in 0 .. (UINT16_COUNT - 1)
    /\ SlotTag(arg) % num_entries = arg % num_entries

(***************************************************************************)
(* C10.  For all 16-bit a # b exactly one of greater_than(a,b) and         *)
(* greater_than(b,a) holds, also when a and b are exactly 32768 apart;     *)
(* greater_than(a,a) is false; less_than(a,b) = greater_than(b,a).         *)
(***************************************************************************)
C10_ExactlyOneGreater ==
    /\ (cmp_gt # NULL /\ cmp_gt_rev # NULL) =>
           /\ (cmp_s1 # cmp_s2) => (cmp_gt + cmp_gt_rev = 1)
           /\ (cmp_s1 = cmp_s2) => (cmp_gt = 0 /\ cmp_gt_rev = 0)
    /\ (cmp_lt # NULL /\ cmp_gt_rev # NULL) => cmp_lt = cmp_gt_rev

\* all three comparisons made of a pair exactly 32768 apart
C10_Witness ==
    /\ cmp_gt # NULL /\ cmp_gt_rev # NULL /\ cmp_lt # NULL
    /\ cmp_s2 - cmp_s1 = HALF_RANGE
    /\ cmp_gt = 0 /\ cmp_lt = 1

(***************************************************************************)
(* C11.  greater_than is a total order on the 16-bit sequences: besides    *)
(* being irreflexive and total on distinct pairs it is transitive, for all *)
(* a, b, c: greater_than(a,b) and greater_than(b,c) imply                  *)
(* greater_than(a,c).                                                      *)
(***************************************************************************)
OrderCompared ==
    cmp_gt # NULL /\ cmp_gt_rev # NULL /\ cmp_gt_23 # NULL /\ cmp_gt_13 # NULL

C11_Transitive ==
    (OrderCompared /\ cmp_gt = 1 /\ cmp_gt_23 = 1) => cmp_gt_13 = 1

(***************************************************************************)
(* C11 as amended.  greater_than is irreflexive and total on distinct      *)
(* pairs, and it is transitive over less than half the cycle: when         *)
(* greater_than(a,b) and greater_than(b,c) and the forward distances       *)
(* (a - b) mod 65536 and (b - c) mod 65536 sum to less than 32768, then    *)
(* greater_than(a,c).                                                      *)
(***************************************************************************)
C11_TransitiveWithinHalf ==
    OrderCompared =>
        /\ (cmp_s1 = cmp_s2) => (cmp_gt = 0 /\ cmp_gt_rev = 0)
        /\ (cmp_s1 # cmp_s2) => (cmp_gt + cmp_gt_rev = 1)
        /\ ( /\ cmp_gt = 1
             /\ cmp_gt_23 = 1
             /\ U16(cmp_s1 - cmp_s2) + U16(cmp_s2 - cmp_s3) < HALF_RANGE )
               => cmp_gt_13 = 1

\* a chain a > b > c across the 65535 to 0 wrap, compared
C11_Witness ==
    /\ OrderCompared
    /\ cmp_gt = 1 /\ cmp_gt_23 = 1 /\ cmp_gt_13 = 1
    /\ cmp_s1 < cmp_s2 /\ cmp_s3 < cmp_s2 /\ cmp_s1 < cmp_s3
    /\ U16(cmp_s1 - cmp_s2) + U16(cmp_s2 - cmp_s3) < HALF_RANGE

(***************************************************************************)
(* C12.  For all 16-bit a and b, greater_than(a,b) is true iff the forward *)
(* distance from b to a, (a - b) mod 65536, is nonzero and at most 32768.  *)
(***************************************************************************)
C12_ForwardDistance ==
    (cmp_gt # NULL) =>
        ((cmp_gt = 1) <=> (U16(cmp_s1 - cmp_s2) \in 1 .. HALF_RANGE))

(***************************************************************************)
(* C12 as amended.  greater_than(a,b) is true iff (a - b) mod 65536 is in  *)
(* 1 .. 32767, or is 32768 and a > b as integers.                          *)
(***************************************************************************)
C12_ForwardDistanceTieToLarger ==
    (cmp_gt # NULL) =>
        ((cmp_gt = 1) <=>
            \/ U16(cmp_s1 - cmp_s2) \in 1 .. (HALF_RANGE - 1)
            \/ (U16(cmp_s1 - cmp_s2) = HALF_RANGE /\ cmp_s1 > cmp_s2))

\* greater_than called on a pair exactly 32768 apart, the larger first
C12_Witness ==
    /\ cmp_gt = 1
    /\ cmp_s1 - cmp_s2 = HALF_RANGE

(***************************************************************************)
(* C15.  newest_sequence only moves forward: an insert(s) with s+1 more    *)
(* recent than newest_sequence sets it to (s + 1) mod 65536; every other   *)
(* insert, accepted or rejected, leaves it as it was; so an insert keeps   *)
(* newest_sequence or advances it by a cyclic distance in 1 .. 32768, and  *)
(* only reset moves it back.                                               *)
(***************************************************************************)
KeptOrAdvanced ==
    \/ sequence = pre_sequence
    \/ U16(sequence - pre_sequence) \in 1 .. HALF_RANGE

C15_NewestOnlyAdvances ==
    /\ (op = "insert") =>
           /\ IF reliable_sequence_greater_than(U16(arg + 1), pre_sequence)
              THEN sequence = U16(arg + 1)
              ELSE sequence = pre_sequence
           /\ KeptOrAdvanced
    /\ (op \notin {"create", "reset"}) => KeptOrAdvanced

\* insert(65535) advancing newest_sequence across the wrap to 0
C15_Witness ==
    /\ op = "insert"
    /\ arg = UINT16_COUNT - 1
    /\ pre_sequence > HALF_RANGE
    /\ sequence = 0

(***************************************************************************)
(* C16.  The range eviction insert uses, remove_entries(start, finish),    *)
(* leaves empty the slot (sequence % capacity) of every sequence of the    *)
(* cyclic inclusive range [start, finish], also when finish < start and    *)
(* the range holds fewer than capacity sequences.  It is stated of the     *)
(* tags remove_entries leaves in an advancing insert, before insert tags   *)
(* its slot.                                                               *)
(***************************************************************************)
Min(a, b) == IF a < b THEN a ELSE b

\* the slots of the sequences start, start + 1, ..., finish (mod 65536):
\* n consecutive integers already give every slot their run can give
RangeSlots(start, finish, n) ==
    IF start <= finish
    THEN {(start + j) % n : j \in 0 .. Min(finish - start, n - 1)}
    ELSE {(start + j) % n : j \in 0 .. Min(UINT16_COUNT - 1 - start, n - 1)}
            \cup {j % n : j \in 0 .. Min(finish, n - 1)}

C16_RangeEmptied ==
    (was_reset /\ op = "insert" /\ insert_advances(pre_sequence, arg)) =>
        \A i \in RangeSlots(pre_sequence, arg, num_entries) :
            remove_entries(pre_entry_sequence, num_entries, pre_sequence, arg)[i]
                = EMPTY

(***************************************************************************)
(* C17.  Every insert does bounded work: its eviction step writes at most  *)
(* capacity tags, and when the linearized span finish - start is at least  *)
(* capacity, the only slot not empty after the insert is the one tagged    *)
(* with the inserted sequence.                                             *)
(***************************************************************************)
C17_BoundedEviction ==
    (op = "insert") =>
        /\ insert_eviction_writes(pre_sequence, num_entries, arg) \in 0 .. num_entries
        /\ ( /\ insert_advances(pre_sequence, arg)
             /\ linear_finish(pre_sequence, arg) - pre_sequence >= num_entries )
               => \A i \in Slots :
                      entry_sequence[i] = IF i = arg % num_entries THEN arg ELSE EMPTY

\* an insert far ahead of a buffer of several slots that held entries
C17_Witness ==
    /\ op = "insert"
    /\ was_reset
    /\ num_entries > 1
    /\ insert_advances(pre_sequence, arg)
    /\ linear_finish(pre_sequence, arg) - pre_sequence >= num_entries
    /\ \A i \in Slots : pre_entry_sequence[i] # EMPTY

(***************************************************************************)
(* C18.  In every state reached from reset by insert and remove, with      *)
(* capacity <= 32768, newest_sequence is strictly more recent than every   *)
(* resident sequence: exists(t) implies greater_than(newest_sequence, t).  *)
(***************************************************************************)
C18_NewestAheadOfResidents ==
    (was_reset /\ num_entries <= HALF_RANGE) =>
        \A t \in Resident(entry_sequence, num_entries) :
            reliable_sequence_greater_than(sequence, t)

(***************************************************************************)
(* C19.  Frame conditions: exists, find, is_available and at_index change  *)
(* no field; remove(s) changes only the tag of slot s % capacity; an       *)
(* accepted insert(s) that does not advance the window changes only the    *)
(* tag of slot s % capacity and leaves newest_sequence as it was.          *)
(***************************************************************************)
OtherTagsKept(s) ==
    \A i \in Slots : (i # s % num_entries) => entry_sequence'[i] = entry_sequence[i]

C19_Frame ==
    [][ /\ (op' \in {"available", "exists", "find", "at_index"}) =>
               UNCHANGED bufVars
        /\ (op' = "remove") =>
               /\ UNCHANGED <<num_entries, entry_stride, sequence, was_reset>>
               /\ OtherTagsKept(arg')
        /\ (op' = "insert" /\ ret' # NULL /\ ~insert_advances(sequence, arg')) =>
               /\ UNCHANGED <<num_entries, entry_stride, sequence, was_reset>>
               /\ OtherTagsKept(arg')
      ]_vars

\* an accepted insert behind newest_sequence into a buffer holding entries
\* in other slots
C19_Witness ==
    /\ op = "insert" /\ ret # NULL
    /\ was_reset
    /\ ~insert_advances(pre_sequence, arg)
    /\ pre_entry_sequence[arg % num_entries] # arg
    /\ \E i \in Slots : i # arg % num_entries /\ pre_entry_sequence[i] # EMPTY

====
